---- MODULE Spec2Model ----
(***************************************************************************)
(* Model of the anti-location-tracker demo suite.                          *)
(*                                                                         *)
(*   Spec          the location tracker (live_locations.py) driven by its  *)
(*                 own API, by the GUI screen (live_locations_gui.py) or   *)
(*                 by display_live_location, with its worker threads;      *)
(*   SpecMonitor   the AntiGPSSystem monitoring loop (anti_gps.py) with    *)
(*                 its configuration setters;                              *)
(*   SpecClassify  analyze_threat_level as a pure function of its input.   *)
(*                                                                         *)
(* Threads interleave between statements (CPython may switch threads       *)
(* between any two bytecodes), so every statement of a worker loop that    *)
(* reads or writes shared state is one step.                               *)
(*                                                                         *)
(* A location sample is represented by its creation time (the value of     *)
(* the clock `now` when get_current_location built it): samples are        *)
(* timestamped at creation and never changed, so the timestamp identifies  *)
(* the sample.  Strengths, qualities and jamming powers are in hundredths  *)
(* (0.7 is 70), compared exactly.                                          *)
(***************************************************************************)
EXTENDS Integers, Sequences, FiniteSets

VARIABLES
    \* ---- LiveLocationTracker / LiveLocationGUI ----
    driver,             \* who calls start/stop: "api", "gui" or "main"
    is_tracking,        \* LiveLocationTracker.is_tracking
    gui_is_tracking,    \* LiveLocationGUI.is_tracking
    current_location,   \* LiveLocationTracker.current_location (0 is None)
    location_history,   \* LiveLocationTracker.location_history
    log_lines,          \* number of lines in live_locations_log.txt
    last_line,          \* the sample of the last line written (0: no line)
    pc,                 \* each worker thread's position in tracking_loop
    location,           \* each worker's local `location`
    sliced,             \* each worker's value of location_history[-100:]
    now,                \* clock: number of samples created so far
    threads,            \* number of worker threads started so far
    mainpc,             \* position of display_live_location
    appended,           \* history of the history: every sample appended, in order
    log_failures,       \* number of log writes that raised
    stop_mark,          \* <<appends, log lines>> when stop was last called
    route,              \* the places random.choice draws in this run
    \* ---- AntiGPSSystem ----
    is_active,
    detection_mode,
    protection_level,
    gps_signals_detected,
    jamming_active,
    mpc,                \* the monitoring thread's position
    signals,            \* continuous_monitoring's local `signals`
    threat_level,       \* continuous_monitoring's local `threat_level`
    applied,            \* countermeasures applied in the current tick, in order
    scans,              \* number of scans made
    gps_log_lines,      \* number of lines in anti_gps_log.txt
    gps_last_line,      \* the last log_entry written
    message,            \* what the last configuration call printed
    drawn,              \* the current tick's random draws, one <<strength, quality>> per band
    \* ---- analyze_threat_level as a function ----
    csignals,           \* the input list
    cresult,            \* the value returned for csignals
    cprev,              \* the value returned before the last change of csignals
    cop,                \* the last operation on csignals
    \* ---- the tracker's queries as functions of the history ----
    stored,             \* location_history when the query is made
    limit,              \* get_location_history's argument
    recent,             \* the list get_location_history returned
    distance,           \* the value get_distance_traveled returned, in metres
    query,              \* the last query made
    \* ---- ShareableLinksGenerator / EnhancedShareableLinksGenerator ----
    share_location,     \* the location handed to generate_links
    analytics,          \* EnhancedShareableLinksGenerator.analytics
    links,              \* the dictionary generate_links returned last
    previous_links,     \* the dictionary it returned the time before
    link_op,            \* the last operation of the generator
    \* ---- the callers of AntiGPSSystem ----
    gps_mainpc,         \* position of anti_gps.main ("idle": main is not running)
    gui_is_monitoring,  \* AntiGPSGUI.is_monitoring
    pending,            \* callbacks scheduled with root.after and not yet run
    jam_signals,        \* the list last handed to signal_jamming directly
    jamming_results,    \* the list that call built
    jam_op              \* how that call ended

trackerVars == <<driver, is_tracking, gui_is_tracking, current_location,
                 location_history, log_lines, last_line, pc, location, sliced,
                 now, threads, mainpc, appended, log_failures, stop_mark,
                 route>>

monitorVars == <<is_active, detection_mode, protection_level,
                 gps_signals_detected, jamming_active, mpc, signals,
                 threat_level, applied, scans, gps_log_lines, gps_last_line,
                 message, drawn>>

classifyVars == <<csignals, cresult, cprev, cop>>

queryVars == <<stored, limit, recent, distance, query>>

linkVars == <<share_location, analytics, links, previous_links, link_op>>

callerVars == <<gps_mainpc, gui_is_monitoring, pending, jam_signals,
                jamming_results, jam_op>>

vars == <<trackerVars, monitorVars, classifyVars, queryVars, linkVars,
          callerVars>>

\* What the steps of one component leave unchanged: the other components.
notTracker ==
    <<monitorVars, classifyVars, queryVars, linkVars, callerVars>>
notMonitor ==
    <<trackerVars, classifyVars, queryVars, linkVars, callerVars>>
notClassify ==
    <<trackerVars, monitorVars, queryVars, linkVars, callerVars>>
notQuery ==
    <<trackerVars, monitorVars, classifyVars, linkVars, callerVars>>
notLinks ==
    <<trackerVars, monitorVars, classifyVars, queryVars, callerVars>>
\* What AntiGPSSystem and its callers leave unchanged.
notGps == <<trackerVars, classifyVars, queryVars, linkVars>>

(***************************************************************************)
(* Bounds of the model.                                                    *)
(***************************************************************************)
MaxThreads == 2          \* worker threads started in one run
MaxSamples == 2          \* samples created under the "api" and "gui" drivers
MaxSessionSamples == 102 \* samples created by display_live_location's worker
MaxLogFailures == 1      \* log writes that raise
MaxScans == 2            \* scans made by the monitoring loop
MaxDetected == 2         \* no scan starts once this many signals are recorded
MaxSessionDetected == 3  \* the same, in a console session (main)
MaxSignals == 3          \* length of a list handed to analyze_threat_level
MaxStored == 3           \* length of a history handed to the queries
MaxLimit == 4            \* largest limit given to get_location_history
MaxUses == 2             \* clicks, and copies, counted by the link generator

(***************************************************************************)
(* Program constants.                                                      *)
(***************************************************************************)
HistoryCap == 100

Workers == 1..MaxThreads

Range(s) == {s[i] : i \in 1..Len(s)}

\* Python's seq[-n:] for n >= 1: the last n elements, the whole list when shorter.
LastN(s, n) ==
    IF Len(s) <= n THEN s ELSE SubSeq(s, Len(s) - n + 1, Len(s))

(***************************************************************************)
(* LiveLocationTracker, LiveLocationGUI, display_live_location             *)
(***************************************************************************)
\* The draws of random.choice(self.sample_locations) over a run, from a small
\* family: every sample at New York, or the first sample at London and every
\* later one at New York.  The places are followed in a console session only.
Routes == {"home", "abroad_first"}

InitTracker ==
    /\ driver \in {"api", "gui", "main"}
    /\ is_tracking = FALSE
    /\ gui_is_tracking = FALSE
    /\ current_location = 0
    /\ location_history = << >>
    /\ log_lines = 0
    /\ last_line = 0
    /\ pc = [w \in Workers |-> "none"]
    /\ location = [w \in Workers |-> 0]
    /\ sliced = [w \in Workers |-> << >>]
    /\ now = 0
    /\ threads = 0
    /\ mainpc = "begin"
    /\ appended = << >>
    /\ log_failures = 0
    /\ stop_mark = <<-1, -1>>
    /\ route \in IF driver = "main" THEN Routes ELSE {"home"}

\* threading.Thread(target=self.tracking_loop).start(): one more worker, at the
\* head of its loop.
SpawnWorker ==
    /\ threads < MaxThreads
    /\ threads' = threads + 1
    /\ pc' = [pc EXCEPT ![threads + 1] = "check"]
    /\ stop_mark' = <<-1, -1>>

\* The first stop after the latest start records where the history and the log stood.
MarkStop ==
    stop_mark' = IF stop_mark = <<-1, -1>> THEN <<Len(appended), log_lines>>
                 ELSE stop_mark

\* LiveLocationTracker.start_tracking: no test of is_tracking.
StartTracking ==
    /\ driver = "api"
    /\ is_tracking' = TRUE
    /\ SpawnWorker
    /\ UNCHANGED <<route, driver, gui_is_tracking, current_location, location_history,
                   log_lines, last_line, location, sliced, now, mainpc,
                   appended, log_failures>>

\* LiveLocationTracker.stop_tracking.
StopTracking ==
    /\ driver = "api"
    /\ is_tracking' = FALSE
    /\ MarkStop
    /\ UNCHANGED <<route, driver, gui_is_tracking, current_location, location_history,
                   log_lines, last_line, pc, location, sliced, now, threads,
                   mainpc, appended, log_failures>>

\* LiveLocationGUI.start_tracking: guarded by the screen's own flag, which is the
\* only flag it sets.
GuiStartTracking ==
    /\ driver = "gui"
    /\ ~gui_is_tracking
    /\ gui_is_tracking' = TRUE
    /\ SpawnWorker
    /\ UNCHANGED <<route, driver, is_tracking, current_location, location_history,
                   log_lines, last_line, location, sliced, now, mainpc,
                   appended, log_failures>>

\* LiveLocationGUI.stop_tracking: clears its flag and calls tracker.stop_tracking().
GuiStopTracking ==
    /\ driver = "gui"
    /\ gui_is_tracking
    /\ gui_is_tracking' = FALSE
    /\ is_tracking' = FALSE
    /\ MarkStop
    /\ UNCHANGED <<route, driver, current_location, location_history, log_lines,
                   last_line, pc, location, sliced, now, threads, mainpc,
                   appended, log_failures>>

\* display_live_location: tracker.start_tracking(), once.
MainStart ==
    /\ driver = "main"
    /\ mainpc = "begin"
    /\ mainpc' = "loop"
    /\ is_tracking' = TRUE
    /\ SpawnWorker
    /\ UNCHANGED <<route, driver, gui_is_tracking, current_location, location_history,
                   log_lines, last_line, location, sliced, now, appended,
                   log_failures>>

\* display_live_location: KeyboardInterrupt, then tracker.stop_tracking().
MainInterrupt ==
    /\ driver = "main"
    /\ mainpc = "loop"
    /\ mainpc' = "done"
    /\ is_tracking' = FALSE
    /\ MarkStop
    /\ UNCHANGED <<route, driver, gui_is_tracking, current_location, location_history,
                   log_lines, last_line, pc, location, sliced, now, threads,
                   appended, log_failures>>

\* The flag a worker's `while` tests: the GUI loop reads the screen's flag, the
\* tracker's loop reads the tracker's.
RunningFlag == IF driver = "gui" THEN gui_is_tracking ELSE is_tracking

SampleLimit == IF driver = "main" THEN MaxSessionSamples ELSE MaxSamples

\* A loop that raises the tracker's flag itself before testing it, as
\* AntiGPSSystem.continuous_monitoring does with is_active.
LoopCheckSetsFlag(w) ==
    /\ pc[w] = "check"
    /\ is_tracking' = TRUE
    /\ pc' = [pc EXCEPT ![w] = "sample"]
    /\ UNCHANGED <<route, driver, gui_is_tracking, current_location,
                   location_history, log_lines, last_line, location, sliced,
                   now, threads, mainpc, appended, log_failures, stop_mark>>

\* while self.is_tracking:
LoopCheck(w) ==
    /\ pc[w] = "check"
    /\ pc' = [pc EXCEPT ![w] = IF RunningFlag THEN "sample" ELSE "done"]
    /\ UNCHANGED <<route, driver, is_tracking, gui_is_tracking, current_location,
                   location_history, log_lines, last_line, location, sliced,
                   now, threads, mainpc, appended, log_failures, stop_mark>>

\* location = self.get_current_location(): a new sample, stamped with the time.
GetCurrentLocation(w) ==
    /\ pc[w] = "sample"
    /\ now < SampleLimit
    /\ now' = now + 1
    /\ location' = [location EXCEPT ![w] = now + 1]
    /\ pc' = [pc EXCEPT ![w] = "setcur"]
    /\ UNCHANGED <<route, driver, is_tracking, gui_is_tracking, current_location,
                   location_history, log_lines, last_line, sliced, threads,
                   mainpc, appended, log_failures, stop_mark>>

\* self.current_location = location
SetCurrent(w) ==
    /\ pc[w] = "setcur"
    /\ current_location' = location[w]
    /\ pc' = [pc EXCEPT ![w] = "append"]
    /\ UNCHANGED <<route, driver, is_tracking, gui_is_tracking, location_history,
                   log_lines, last_line, location, sliced, now, threads, mainpc,
                   appended, log_failures, stop_mark>>

\* self.location_history.append(location)
AppendHistory(w) ==
    /\ pc[w] = "append"
    /\ location_history' = Append(location_history, location[w])
    /\ appended' = Append(appended, location[w])
    /\ pc' = [pc EXCEPT ![w] = "lencheck"]
    /\ UNCHANGED <<route, driver, is_tracking, gui_is_tracking, current_location,
                   log_lines, last_line, location, sliced, now, threads, mainpc,
                   log_failures, stop_mark>>

\* if len(self.location_history) > 100:
LenCheck(w) ==
    /\ pc[w] = "lencheck"
    /\ pc' = [pc EXCEPT ![w] =
                 IF Len(location_history) > HistoryCap THEN "slice" ELSE "log"]
    /\ UNCHANGED <<route, driver, is_tracking, gui_is_tracking, current_location,
                   location_history, log_lines, last_line, location, sliced,
                   now, threads, mainpc, appended, log_failures, stop_mark>>

\* A slice that keeps the oldest entries instead of the newest.
KeepFirst(h) == SubSeq(h, 1, IF Len(h) < HistoryCap THEN Len(h) ELSE HistoryCap)

\* self.location_history[-100:]
KeepLast(h) == LastN(h, HistoryCap)

\* The right-hand side of the assignment: a new list, the last 100 entries.
SliceHistory(w) ==
    /\ pc[w] = "slice"
    /\ sliced' = [sliced EXCEPT ![w] = KeepLast(location_history)]
    /\ pc' = [pc EXCEPT ![w] = "assign"]
    /\ UNCHANGED <<route, driver, is_tracking, gui_is_tracking, current_location,
                   location_history, log_lines, last_line, location, now,
                   threads, mainpc, appended, log_failures, stop_mark>>

\* self.location_history = <the slice>
AssignHistory(w) ==
    /\ pc[w] = "assign"
    /\ location_history' = sliced[w]
    /\ sliced' = [sliced EXCEPT ![w] = << >>]
    /\ pc' = [pc EXCEPT ![w] = "log"]
    /\ UNCHANGED <<route, driver, is_tracking, gui_is_tracking, current_location,
                   log_lines, last_line, location, now, threads, mainpc,
                   appended, log_failures, stop_mark>>

\* self.log_location(location): one line appended to the log file.
LogLocation(w) ==
    /\ pc[w] = "log"
    /\ log_lines' = log_lines + 1
    /\ last_line' = location[w]
    /\ pc' = [pc EXCEPT ![w] = "sleep"]
    /\ UNCHANGED <<route, driver, is_tracking, gui_is_tracking, current_location,
                   location_history, location, sliced, now, threads, mainpc,
                   appended, log_failures, stop_mark>>

\* self.log_location(location) raises (open or write fails): nothing is written
\* and control passes to the except clause.
LogLocationRaises(w) ==
    /\ pc[w] = "log"
    /\ log_failures < MaxLogFailures
    /\ log_failures' = log_failures + 1
    /\ pc' = [pc EXCEPT ![w] = "backoff"]
    /\ UNCHANGED <<route, driver, is_tracking, gui_is_tracking, current_location,
                   location_history, log_lines, last_line, location, sliced,
                   now, threads, mainpc, appended, stop_mark>>

\* time.sleep(self.tracking_interval), then back to the loop test.
Sleep(w) ==
    /\ pc[w] = "sleep"
    /\ pc' = [pc EXCEPT ![w] = "check"]
    /\ UNCHANGED <<route, driver, is_tracking, gui_is_tracking, current_location,
                   location_history, log_lines, last_line, location, sliced,
                   now, threads, mainpc, appended, log_failures, stop_mark>>

\* except Exception: print, time.sleep(1), then back to the loop test.
Backoff(w) ==
    /\ pc[w] = "backoff"
    /\ pc' = [pc EXCEPT ![w] = "check"]
    /\ UNCHANGED <<route, driver, is_tracking, gui_is_tracking, current_location,
                   location_history, log_lines, last_line, location, sliced,
                   now, threads, mainpc, appended, log_failures, stop_mark>>

TrackingLoop(w) ==
    \/ LoopCheck(w)
    \/ GetCurrentLocation(w)
    \/ SetCurrent(w)
    \/ AppendHistory(w)
    \/ LenCheck(w)
    \/ SliceHistory(w)
    \/ AssignHistory(w)
    \/ LogLocation(w)
    \/ LogLocationRaises(w)
    \/ Sleep(w)
    \/ Backoff(w)

(***************************************************************************)
(* AntiGPSSystem                                                           *)
(***************************************************************************)
\* self.gps_frequencies, in iteration order.
Bands == <<"L1", "L2", "L5">>

\* self.protection_methods
ProtectionMethods ==
    [low     |-> {"signal_detection", "location_spoofing"},
     medium  |-> {"signal_detection", "location_spoofing", "signal_jamming"},
     high    |-> {"signal_detection", "location_spoofing", "signal_jamming",
                  "frequency_hopping"},
     maximum |-> {"signal_detection", "location_spoofing", "signal_jamming",
                  "frequency_hopping", "encryption"}]

ProtectionLevels == DOMAIN ProtectionMethods

\* valid_modes of set_detection_mode
ValidModes == {"passive", "active", "aggressive"}

\* if signal_strength > 0.3
DetectThreshold == 30

\* jamming_success = jamming_power > 0.7
JamThreshold == 70

\* What the random source is taken to draw for one band, <<strength, quality>>,
\* out of uniform(0.1, 1.0) and uniform(0.5, 0.95): a signal too weak to
\* detect, a middling one of poor quality, a strong one of good quality.
SignalDraws == {<<20, 90>>, <<60, 60>>, <<100, 90>>}

\* What the random source is taken to draw for one jamming power, out of
\* uniform(0.6, 0.95).
JamDraws == {65, 90}

\* Arguments the configuration setters are called with.
LevelInputs == {"low", "maximum", "ultra"}
ModeInputs == {"aggressive", "stealth"}

RECURSIVE SumStrength(_)
SumStrength(s) == IF s = << >> THEN 0 ELSE Head(s).strength + SumStrength(Tail(s))

RECURSIVE SumQuality(_)
SumQuality(s) == IF s = << >> THEN 0 ELSE Head(s).quality + SumQuality(Tail(s))

\* A classifier whose comparisons are not strict.
AnalyzeThreatLevelInclusive(s) ==
    IF s = << >> THEN "none"
    ELSE LET total_strength == SumStrength(s)
             quality_sum == SumQuality(s)
             n == Len(s)
         IN  IF total_strength >= 200 /\ quality_sum >= 80 * n THEN "critical"
             ELSE IF total_strength >= 150 /\ quality_sum >= 70 * n THEN "high"
             ELSE IF total_strength >= 100 THEN "medium"
             ELSE "low"

\* A classifier whose medium test has its comparison the wrong way round.
AnalyzeThreatLevelFlipped(s) ==
    IF s = << >> THEN "none"
    ELSE LET total_strength == SumStrength(s)
             quality_sum == SumQuality(s)
             n == Len(s)
         IN  IF total_strength > 200 /\ quality_sum > 80 * n THEN "critical"
             ELSE IF total_strength > 150 /\ quality_sum > 70 * n THEN "high"
             ELSE IF total_strength < 100 THEN "medium"
             ELSE "low"

\* A classifier whose strength thresholds are half as high (1.0, 0.75, 0.5).
AnalyzeThreatLevelHalved(s) ==
    IF s = << >> THEN "none"
    ELSE LET total_strength == SumStrength(s)
             quality_sum == SumQuality(s)
             n == Len(s)
         IN  IF total_strength > 100 /\ quality_sum > 80 * n THEN "critical"
             ELSE IF total_strength > 75 /\ quality_sum > 70 * n THEN "high"
             ELSE IF total_strength > 50 THEN "medium"
             ELSE "low"

\* analyze_threat_level.  avg_quality > 0.8 is sum(quality) / n > 0.8, which is
\* sum(quality) > 0.8 n for n > 0.
AnalyzeThreatLevel(s) ==
    IF s = << >> THEN "none"
    ELSE LET total_strength == SumStrength(s)
             quality_sum == SumQuality(s)
             n == Len(s)
         IN  IF total_strength > 200 /\ quality_sum > 80 * n THEN "critical"
             ELSE IF total_strength > 150 /\ quality_sum > 70 * n THEN "high"
             ELSE IF total_strength > 100 THEN "medium"
             ELSE "low"

RECURSIVE DetectedFromByMode(_, _)
\* A scan whose threshold depends on the detection mode: aggressive mode keeps
\* weaker signals.
DetectedFromByMode(draw, i) ==
    IF i > Len(Bands) THEN << >>
    ELSE LET rest == DetectedFromByMode(draw, i + 1)
             threshold == IF detection_mode = "aggressive" THEN 10
                          ELSE DetectThreshold
         IN  IF draw[i][1] > threshold
             THEN <<[frequency |-> Bands[i], strength |-> draw[i][1],
                     quality |-> draw[i][2]]>> \o rest
             ELSE rest

RECURSIVE DetectedFrom(_, _)
\* The loop of detect_gps_signals from band i on: a band's signal is kept when
\* its strength exceeds the threshold, in band order.
DetectedFrom(draw, i) ==
    IF i > Len(Bands) THEN << >>
    ELSE LET rest == DetectedFrom(draw, i + 1)
         IN  IF draw[i][1] > DetectThreshold
             THEN <<[frequency |-> Bands[i], strength |-> draw[i][1],
                     quality |-> draw[i][2]]>> \o rest
             ELSE rest

InitMonitor ==
    /\ is_active = FALSE
    /\ detection_mode = "passive"
    /\ protection_level = "medium"
    /\ gps_signals_detected = << >>
    /\ jamming_active = FALSE
    /\ mpc = "none"
    /\ signals = << >>
    /\ threat_level = "unset"
    /\ applied = << >>
    /\ scans = 0
    /\ gps_log_lines = 0
    /\ gps_last_line = [signals_detected |-> 0, threat_level |-> "unset",
                        protection_active |-> FALSE, detection_mode |-> "unset"]
    /\ message = "none"
    /\ drawn = << >>

\* A setter that stores whatever it is given.
StoreLevelUnchecked(level) ==
    /\ protection_level' = level
    /\ message' = "level_set"

\* The body of set_protection_level.
StoreLevel(level) ==
    IF level \in ProtectionLevels
    THEN /\ protection_level' = level
         /\ message' = "level_set"
    ELSE /\ protection_level' = protection_level
         /\ message' = "invalid_level"

\* set_protection_level(level)
SetProtectionLevel ==
    \E level \in LevelInputs :
        /\ StoreLevel(level)
        /\ UNCHANGED <<drawn, is_active, detection_mode, gps_signals_detected,
                       jamming_active, mpc, signals, threat_level, applied,
                       scans, gps_log_lines, gps_last_line>>

\* The body of set_detection_mode.
StoreMode(mode) ==
    IF mode \in ValidModes
    THEN /\ detection_mode' = mode
         /\ message' = "mode_set"
    ELSE /\ detection_mode' = detection_mode
         /\ message' = "invalid_mode"

\* set_detection_mode(mode)
SetDetectionMode ==
    \E mode \in ModeInputs :
        /\ StoreMode(mode)
        /\ UNCHANGED <<drawn, is_active, protection_level, gps_signals_detected,
                       jamming_active, mpc, signals, threat_level, applied,
                       scans, gps_log_lines, gps_last_line>>

\* main: threading.Thread(target=anti_gps.continuous_monitoring).start()
StartMonitorThread ==
    /\ mpc = "none"
    /\ mpc' = "begin"
    /\ UNCHANGED <<drawn, is_active, detection_mode, protection_level,
                   gps_signals_detected, jamming_active, signals, threat_level,
                   applied, scans, gps_log_lines, gps_last_line, message>>

\* stop_monitoring
StopMonitoring ==
    /\ is_active' = FALSE
    /\ UNCHANGED <<drawn, detection_mode, protection_level, gps_signals_detected,
                   jamming_active, mpc, signals, threat_level, applied, scans,
                   gps_log_lines, gps_last_line, message>>

\* continuous_monitoring: self.is_active = True
MonitorBegin ==
    /\ mpc = "begin"
    /\ is_active' = TRUE
    /\ mpc' = "check"
    /\ UNCHANGED <<drawn, detection_mode, protection_level, gps_signals_detected,
                   jamming_active, signals, threat_level, applied, scans,
                   gps_log_lines, gps_last_line, message>>

\* while self.is_active:
MonitorCheck ==
    /\ mpc = "check"
    /\ mpc' = IF is_active THEN "detect" ELSE "done"
    /\ UNCHANGED <<drawn, is_active, detection_mode, protection_level,
                   gps_signals_detected, jamming_active, signals, threat_level,
                   applied, scans, gps_log_lines, gps_last_line, message>>

\* The bound on the detected-signals list: a console session is followed for
\* one more signal, so that a tick with a response can be followed by a tick.
DetectedLimit ==
    IF gps_mainpc = "idle" THEN MaxDetected ELSE MaxSessionDetected

\* signals = self.detect_gps_signals(): the scan's signals, also appended to
\* self.gps_signals_detected; then `if signals:`.
DetectGpsSignals ==
    /\ mpc = "detect"
    /\ scans < MaxScans
    /\ Len(gps_signals_detected) < DetectedLimit
    /\ \E draw \in [1..Len(Bands) -> SignalDraws] :
          LET found == DetectedFrom(draw, 1)
          IN  /\ signals' = found
              /\ drawn' = draw
              /\ gps_signals_detected' = gps_signals_detected \o found
              /\ mpc' = IF found # << >> THEN "classify" ELSE "log"
    /\ scans' = scans + 1
    /\ applied' = << >>
    /\ UNCHANGED <<is_active, detection_mode, protection_level, jamming_active,
                   threat_level, gps_log_lines, gps_last_line, message>>

\* threat_level = self.analyze_threat_level(signals)
Classify ==
    /\ mpc = "classify"
    /\ threat_level' = AnalyzeThreatLevel(signals)
    /\ mpc' = "respond"
    /\ UNCHANGED <<drawn, is_active, detection_mode, protection_level,
                   gps_signals_detected, jamming_active, signals, applied,
                   scans, gps_log_lines, gps_last_line, message>>

\* signal_jamming(signals) for a non-empty list: one power drawn per signal,
\* jamming_active = any(success).
SignalJamming ==
    \E power \in [1..Len(signals) -> JamDraws] :
        jamming_active' = (\E i \in 1..Len(signals) : power[i] > JamThreshold)

\* apply_protection: spoofing, jamming, hopping, encryption, in that order.
ApplyProtection ==
    /\ applied' = <<"location_spoofing", "signal_jamming", "frequency_hopping",
                    "encryption">>
    /\ SignalJamming

\* apply_basic_protection: spoofing, jamming.
ApplyBasicProtection ==
    /\ applied' = <<"location_spoofing", "signal_jamming">>
    /\ SignalJamming

\* A response that treats medium like high.
RespondMediumAsHigh ==
    IF threat_level \in {"high", "critical", "medium"} THEN ApplyProtection
    ELSE UNCHANGED <<applied, jamming_active>>

\* if threat_level in ["high", "critical"]: ... elif threat_level == "medium": ...
RespondTo ==
    IF threat_level \in {"high", "critical"} THEN ApplyProtection
    ELSE IF threat_level = "medium" THEN ApplyBasicProtection
    ELSE UNCHANGED <<applied, jamming_active>>

Respond ==
    /\ mpc = "respond"
    /\ RespondTo
    /\ mpc' = "log"
    /\ UNCHANGED <<drawn, is_active, detection_mode, protection_level,
                   gps_signals_detected, signals, threat_level, scans,
                   gps_log_lines, gps_last_line, message>>

\* A tick that writes its record only inside `if signals:`.
LogActivityWhenSignals ==
    /\ mpc = "log"
    /\ IF signals # << >>
       THEN /\ gps_last_line' = [signals_detected |-> Len(signals),
                                 threat_level |-> AnalyzeThreatLevel(signals),
                                 protection_active |-> jamming_active,
                                 detection_mode |-> detection_mode]
            /\ gps_log_lines' = gps_log_lines + 1
       ELSE UNCHANGED <<gps_last_line, gps_log_lines>>
    /\ mpc' = "sleep"
    /\ UNCHANGED <<drawn, is_active, detection_mode, protection_level,
                   gps_signals_detected, jamming_active, signals, threat_level,
                   applied, scans, message>>

\* self.log_activity(signals): one line appended to the log file.
LogActivity ==
    /\ mpc = "log"
    /\ gps_last_line' = [signals_detected |-> Len(signals),
                         threat_level |-> AnalyzeThreatLevel(signals),
                         protection_active |-> jamming_active,
                         detection_mode |-> detection_mode]
    /\ gps_log_lines' = gps_log_lines + 1
    /\ mpc' = "sleep"
    /\ UNCHANGED <<drawn, is_active, detection_mode, protection_level,
                   gps_signals_detected, jamming_active, signals, threat_level,
                   applied, scans, message>>

\* self.log_activity(signals) raises: continuous_monitoring has no try, so the
\* exception ends the thread.
LogActivityRaises ==
    /\ mpc = "log"
    /\ mpc' = "crashed"
    /\ UNCHANGED <<drawn, is_active, detection_mode, protection_level,
                   gps_signals_detected, jamming_active, signals, threat_level,
                   applied, scans, gps_log_lines, gps_last_line, message>>

\* time.sleep(2), then back to the loop test.  The tick is over: its locals are
\* dead (signals is assigned anew by the next scan, threat_level is read only
\* after being assigned, the draws are gone) and are cleared.
MonitorSleep ==
    /\ mpc = "sleep"
    /\ mpc' = "check"
    /\ signals' = << >>
    /\ threat_level' = "unset"
    /\ applied' = << >>
    /\ drawn' = << >>
    /\ UNCHANGED <<is_active, detection_mode, protection_level,
                   gps_signals_detected, jamming_active, scans, gps_log_lines,
                   gps_last_line, message>>

ContinuousMonitoring ==
    \/ MonitorBegin
    \/ MonitorCheck
    \/ DetectGpsSignals
    \/ Classify
    \/ Respond
    \/ LogActivity
    \/ LogActivityRaises
    \/ MonitorSleep

(***************************************************************************)
(* analyze_threat_level applied to arbitrary lists                         *)
(***************************************************************************)
\* Strengths and qualities of the lists tried: values on, below and above the
\* classifier's thresholds (sums of 100, 150 and 200; means of 70 and 80).
StrengthGrid == {40, 50, 75, 100}
QualityGrid == {60, 75, 90}

SignalGrid ==
    [frequency : {"L1"}, strength : StrengthGrid, quality : QualityGrid]

SignalLists == UNION {[1..n -> SignalGrid] : n \in 0..MaxSignals}

\* demo_threat_assessment's threat_scenarios, each under the severity its name
\* states ("No Threat", "Low Threat", "Medium Threat", "High Threat", "Critical
\* Threat"); the demo's signals have no frequency.
ThreatScenarios ==
    [none |-> << >>,
     low |-> <<[strength |-> 30, quality |-> 60]>>,
     medium |-> <<[strength |-> 70, quality |-> 80]>>,
     high |-> <<[strength |-> 90, quality |-> 90]>>,
     critical |-> <<[strength |-> 100, quality |-> 95]>>]

InitClassify ==
    /\ csignals \in SignalLists
                    \cup {ThreatScenarios[name] : name \in DOMAIN ThreatScenarios}
    /\ cresult = "unset"
    /\ cprev = "unset"
    /\ cop = "none"

InitClassifyIdle ==
    /\ csignals = << >>
    /\ cresult = "unset"
    /\ cprev = "unset"
    /\ cop = "none"

\* level = analyze_threat_level(csignals)
Analyze ==
    /\ cresult = "unset"
    /\ cresult' = AnalyzeThreatLevel(csignals)
    /\ cop' = "analyze"
    /\ UNCHANGED <<csignals, cprev>>

\* One sample's strength is raised, everything else kept, and the list is
\* classified again.
RaiseStrength ==
    /\ cresult # "unset"
    /\ \E i \in 1..Len(csignals) : \E s \in StrengthGrid :
          /\ s > csignals[i].strength
          /\ csignals' = [csignals EXCEPT ![i].strength = s]
    /\ cprev' = cresult
    /\ cresult' = AnalyzeThreatLevel(csignals')
    /\ cop' = "raise"

\* One more detected signal joins a non-empty list, and the list is classified
\* again.
AddSignal ==
    /\ cresult # "unset"
    /\ csignals # << >>
    /\ Len(csignals) < MaxSignals
    /\ \E s \in SignalGrid : csignals' = Append(csignals, s)
    /\ cprev' = cresult
    /\ cresult' = AnalyzeThreatLevel(csignals')
    /\ cop' = "add"

(***************************************************************************)
(* get_location_history and get_distance_traveled applied to a history     *)
(*                                                                         *)
(* Here a sample is a record with its timestamp and its coordinates, the   *)
(* fields the two queries read.  Coordinates are in ten-thousandths of a   *)
(* degree (40.7128 is 407128), distances in metres, rounded.               *)
(***************************************************************************)
\* Coordinates of the samples tried: two entries of sample_locations (New York,
\* London) and a point 0.001 degrees north of New York, as the jitter of
\* get_current_location produces.
NewYork == <<407128, -740060>>
NearNewYork == <<407138, -740060>>
London == <<515074, -1278>>
Coordinates == {NewYork, NearNewYork, London}

\* calculate_distance with the arguments of atan2 exchanged: the distance to
\* the antipode (half the circumference, 20015087 m, minus the distance).
CalculateDistanceSwapped(lat1, lon1, lat2, lon2) ==
    LET a == <<lat1, lon1>>
        b == <<lat2, lon2>>
    IN  IF a = b THEN 20015087
        ELSE IF {a, b} = {NewYork, NearNewYork} THEN 20014976
        ELSE IF {a, b} = {NewYork, London} THEN 14444865
        ELSE 14444934

\* calculate_distance: the haversine formula with R = 6371 km, by its values on
\* Coordinates (0.0, 0.11119..., 5570.2221..., 5570.1525... km).  For equal
\* points dlat = dlon = 0, so a = 0, c = 2 atan2(0, 1) = 0 and the result is 0.
CalculateDistance(lat1, lon1, lat2, lon2) ==
    LET a == <<lat1, lon1>>
        b == <<lat2, lon2>>
    IN  IF a = b THEN 0
        ELSE IF {a, b} = {NewYork, NearNewYork} THEN 111
        ELSE IF {a, b} = {NewYork, London} THEN 5570222
        ELSE 5570153

\* The histories tried: up to MaxStored samples with increasing timestamps, at
\* any of the coordinates (repeated coordinates included).
Histories ==
    UNION {{[i \in 1..n |-> [timestamp |-> i, lat |-> at[i][1], lon |-> at[i][2]]] :
               at \in [1..n -> Coordinates]} : n \in 0..MaxStored}

InitQuery ==
    /\ stored \in Histories
    /\ limit = 0
    /\ recent = << >>
    /\ distance = 0
    /\ query = "none"

InitQueryIdle ==
    /\ stored = << >>
    /\ limit = 0
    /\ recent = << >>
    /\ distance = 0
    /\ query = "none"

\* Python's s[-n:] for n >= 0.  -0 is 0, so for n = 0 the slice starts at index
\* 0; a start before the beginning is clipped to the beginning.
SliceFromMinus(s, n) ==
    LET start == IF n = 0 THEN 0
                 ELSE IF Len(s) - n < 0 THEN 0
                 ELSE Len(s) - n
    IN  SubSeq(s, start + 1, Len(s))

\* return self.location_history[-limit:] if self.location_history else []
LocationHistory(h, n) == IF h # << >> THEN SliceFromMinus(h, n) ELSE << >>

\* get_location_history(limit)
GetLocationHistory ==
    \E n \in 0..MaxLimit :
        /\ limit' = n
        /\ recent' = LocationHistory(stored, n)
        /\ query' = "history"
        /\ UNCHANGED <<stored, distance>>

RECURSIVE DistanceLoop(_, _, _)
\* for i in range(i, len(h)): total_distance += calculate_distance(h[i-1], h[i])
\* (i counts from 0 as in the source; h[i-1] there is h[i] here).
\* The running total is never negative.
DistanceLoop(h, i, total_distance) ==
    IF total_distance >= 0 /\ i >= Len(h) THEN total_distance
    ELSE DistanceLoop(h, i + 1,
             total_distance + CalculateDistance(h[i].lat, h[i].lon,
                                                h[i + 1].lat, h[i + 1].lon))

\* A loop that starts one pair late: range(2, len(h)).
DistanceTraveledFromSecond(h) ==
    IF Len(h) < 2 THEN 0 ELSE DistanceLoop(h, 2, 0)

\* The body of get_distance_traveled.
DistanceTraveled(h) ==
    IF Len(h) < 2 THEN 0 ELSE DistanceLoop(h, 1, 0)

\* get_distance_traveled()
GetDistanceTraveled ==
    /\ distance' = DistanceTraveled(stored)
    /\ query' = "distance"
    /\ UNCHANGED <<stored, limit, recent>>

(***************************************************************************)
(* The share-link generators (shareable_links.py and                       *)
(* shareable_links_enhanced.py, whose generator also counts clicks and     *)
(* copies)                                                                 *)
(*                                                                         *)
(* A text is the sequence of its pieces: fixed pieces of the templates and *)
(* the characters of the formatted numbers.  Coordinates are in            *)
(* ten-thousandths of a degree, the precision of the reference table.      *)
(***************************************************************************)
DigitChars == <<"0", "1", "2", "3", "4", "5", "6", "7", "8", "9">>

RECURSIVE Decimal(_)
\* The decimal digits of a natural number.
Decimal(n) ==
    IF n < 10 THEN <<DigitChars[n + 1]>>
    ELSE Decimal(n \div 10) \o <<DigitChars[(n % 10) + 1]>>

Magnitude(v) == IF v < 0 THEN -v ELSE v

\* Sign and integer part of the number v / 10000, then the point.
WholePart(v) ==
    (IF v < 0 THEN <<"-">> ELSE << >>)
        \o Decimal(Magnitude(v) \div 10000) \o <<".">>

\* The four digits of the fraction of v / 10000.
FractionDigits(v) ==
    LET f == Magnitude(v) % 10000
    IN  <<DigitChars[(f \div 1000) + 1], DigitChars[((f \div 100) % 10) + 1],
          DigitChars[((f \div 10) % 10) + 1], DigitChars[(f % 10) + 1]>>

RECURSIVE StripZeros(_)
\* Trailing zeros dropped, one digit kept.
StripZeros(d) ==
    IF Len(d) > 1 /\ d[Len(d)] = "0" THEN StripZeros(SubSeq(d, 1, Len(d) - 1))
    ELSE d

\* f"{lat}": str of a float is its shortest decimal form, which for a number
\* of at most four decimals has no trailing zeros (-74.0060 gives -74.006,
\* 35.0 gives 35.0).
FormatFloat(v) == WholePart(v) \o StripZeros(FractionDigits(v))

\* f"{lat:.6f}": six decimals, zero padded.
FormatFixed6(v) == WholePart(v) \o FractionDigits(v) \o <<"0", "0">>

\* The dictionary generate_links builds, by two of its entries (the other
\* entries are built from the same pieces).
Links(loc) ==
    [google_maps |-> <<"https://www.google.com/maps?", "q=">>
                        \o FormatFloat(loc.lat) \o <<",">> \o FormatFloat(loc.lon),
     short_text |-> <<"(pin) ", loc.name, ", ", loc.country, " (">>
                        \o FormatFixed6(loc.lat) \o <<", ">>
                        \o FormatFixed6(loc.lon) \o <<")">>]

NoLinks == [google_maps |-> << >>, short_text |-> << >>]

\* Locations handed to generate_links: entries of sample_locations.
ShareLocations ==
    {[name |-> "New York", country |-> "USA", lat |-> NewYork[1], lon |-> NewYork[2]],
     [name |-> "London", country |-> "UK", lat |-> London[1], lon |-> London[2]],
     [name |-> "Tokyo", country |-> "Japan", lat |-> 356762, lon |-> 1396503]}

InitLinks ==
    /\ share_location \in ShareLocations
    /\ analytics = [clicks |-> 0, shares |-> 0, copies |-> 0]
    /\ links = NoLinks
    /\ previous_links = NoLinks
    /\ link_op = "none"

InitLinksIdle ==
    /\ share_location = [name |-> "New York", country |-> "USA",
                         lat |-> NewYork[1], lon |-> NewYork[2]]
    /\ analytics = [clicks |-> 0, shares |-> 0, copies |-> 0]
    /\ links = NoLinks
    /\ previous_links = NoLinks
    /\ link_op = "none"

\* A generate_links that counts a share.
GenerateLinksCountsShare ==
    /\ previous_links' = links
    /\ links' = Links(share_location)
    /\ analytics' = [analytics EXCEPT !.shares = 1]
    /\ link_op' = "generate"
    /\ UNCHANGED share_location

\* links = generator.generate_links(location)
GenerateLinks ==
    /\ previous_links' = links
    /\ links' = Links(share_location)
    /\ link_op' = "generate"
    /\ UNCHANGED <<share_location, analytics>>

\* open_link(url): the click is counted unless webbrowser.open raises.
OpenLink ==
    /\ links # NoLinks
    /\ analytics.clicks < MaxUses
    /\ \E opened \in BOOLEAN :
          analytics' = IF opened THEN [analytics EXCEPT !.clicks = @ + 1]
                       ELSE analytics
    /\ link_op' = "open"
    /\ UNCHANGED <<share_location, links, previous_links>>

\* copy_to_clipboard(text, root): the copy is counted unless the clipboard
\* raises.
CopyToClipboard ==
    /\ links # NoLinks
    /\ analytics.copies < MaxUses
    /\ \E copied \in BOOLEAN :
          analytics' = IF copied THEN [analytics EXCEPT !.copies = @ + 1]
                       ELSE analytics
    /\ link_op' = "copy"
    /\ UNCHANGED <<share_location, links, previous_links>>

(***************************************************************************)
(* signal_jamming called on a list of signals                              *)
(***************************************************************************)
\* Lists handed to signal_jamming: detected signals of any of the bands, in
\* band order (only the frequency is read).
JamInputs ==
    {DetectedFrom([i \in 1..Len(Bands) |-> IF i \in on THEN <<60, 60>> ELSE <<20, 90>>], 1) :
        on \in SUBSET (1..Len(Bands))}

\* Jamming powers drawn, random.uniform(0.6, 0.95): below, on and above the
\* threshold.
JamPowers == {60, 70, 80, 95}

\* Results whose success includes a power equal to the threshold.
JammingResultsInclusive(sigs, power) ==
    [i \in 1..Len(sigs) |->
        [frequency |-> sigs[i].frequency, jamming_power |-> power[i],
         success |-> power[i] >= JamThreshold]]

\* The list jamming_results built by the loop of signal_jamming.
JammingResults(sigs, power) ==
    [i \in 1..Len(sigs) |->
        [frequency |-> sigs[i].frequency, jamming_power |-> power[i],
         success |-> power[i] > JamThreshold]]

\* signal_jamming(sigs): `if not signals: return False`, else the results, with
\* jamming_active = any(success).
CallSignalJamming ==
    /\ \E sigs \in JamInputs :
          /\ jam_signals' = sigs
          /\ IF sigs = << >>
             THEN /\ jamming_results' = << >>
                  /\ jam_op' = "refused"
                  /\ UNCHANGED jamming_active
             ELSE \E power \in [1..Len(sigs) -> JamPowers] :
                     /\ jamming_results' = JammingResults(sigs, power)
                     /\ jam_op' = "jammed"
                     /\ jamming_active' =
                           (\E i \in 1..Len(sigs) : jamming_results'[i].success)
    /\ UNCHANGED <<is_active, detection_mode, protection_level,
                   gps_signals_detected, mpc, signals, threat_level, applied,
                   scans, gps_log_lines, gps_last_line, message, drawn>>
    /\ UNCHANGED <<gps_mainpc, gui_is_monitoring, pending>>

\* No caller of AntiGPSSystem has done anything.
InitCallers ==
    /\ gps_mainpc = "idle"
    /\ gui_is_monitoring = FALSE
    /\ pending = << >>
    /\ jam_signals = << >>
    /\ jamming_results = << >>
    /\ jam_op = "none"

(***************************************************************************)
(* anti_gps.main: one console session of the Anti GPS System               *)
(***************************************************************************)
\* anti_gps.set_protection_level("high")
GpsMainSetLevel ==
    /\ gps_mainpc = "begin"
    /\ StoreLevel("high")
    /\ gps_mainpc' = "level_set"
    /\ UNCHANGED <<drawn, is_active, detection_mode, gps_signals_detected,
                   jamming_active, mpc, signals, threat_level, applied,
                   scans, gps_log_lines, gps_last_line>>
    /\ UNCHANGED <<gui_is_monitoring, pending, jam_signals, jamming_results,
                   jam_op>>

\* anti_gps.set_detection_mode("active")
GpsMainSetMode ==
    /\ gps_mainpc = "level_set"
    /\ StoreMode("active")
    /\ gps_mainpc' = "mode_set"
    /\ UNCHANGED <<drawn, is_active, protection_level, gps_signals_detected,
                   jamming_active, mpc, signals, threat_level, applied,
                   scans, gps_log_lines, gps_last_line>>
    /\ UNCHANGED <<gui_is_monitoring, pending, jam_signals, jamming_results,
                   jam_op>>

\* monitor_thread.start(), then `while True: time.sleep(1)`
GpsMainStart ==
    /\ gps_mainpc = "mode_set"
    /\ StartMonitorThread
    /\ gps_mainpc' = "running"
    /\ UNCHANGED <<gui_is_monitoring, pending, jam_signals, jamming_results,
                   jam_op>>

\* except KeyboardInterrupt: anti_gps.stop_monitoring()
GpsMainInterrupt ==
    /\ gps_mainpc = "running"
    /\ StopMonitoring
    /\ gps_mainpc' = "stopped"
    /\ UNCHANGED <<gui_is_monitoring, pending, jam_signals, jamming_results,
                   jam_op>>

\* status = anti_gps.get_status(), printed; main returns and the process ends
\* (the monitoring thread is a daemon).
GpsMainStatus ==
    /\ gps_mainpc = "stopped"
    /\ gps_mainpc' = "exited"
    /\ UNCHANGED monitorVars
    /\ UNCHANGED <<gui_is_monitoring, pending, jam_signals, jamming_results,
                   jam_op>>

\* A step of the monitoring thread while the process of main is alive.
SessionWorker ==
    /\ gps_mainpc # "exited"
    /\ UNCHANGED notMonitor

(***************************************************************************)
(* AntiGPSGUI: the monitoring loop of the window                           *)
(***************************************************************************)
\* What every step of the window and of its worker leaves unchanged.
guiIdle == <<gps_mainpc, jam_signals, jamming_results, jam_op>>

\* AntiGPSGUI.start_monitoring: `if not self.is_monitoring`, the flag, the
\* thread.  One worker is followed: the button is pressed again only after
\* the previous worker has left its loop.
GuiStartMonitoring ==
    /\ ~gui_is_monitoring
    /\ mpc \in {"none", "done"}
    /\ gui_is_monitoring' = TRUE
    /\ mpc' = "check"
    /\ UNCHANGED <<drawn, is_active, detection_mode, protection_level,
                   gps_signals_detected, jamming_active, signals, threat_level,
                   applied, scans, gps_log_lines, gps_last_line, message>>
    /\ UNCHANGED <<pending, guiIdle>>

\* AntiGPSGUI.stop_monitoring: the flag, then self.anti_gps.stop_monitoring().
GuiStopMonitoring ==
    /\ gui_is_monitoring
    /\ gui_is_monitoring' = FALSE
    /\ StopMonitoring
    /\ UNCHANGED <<pending, guiIdle>>

\* while self.is_monitoring:
GuiMonitorCheck ==
    /\ mpc = "check"
    /\ mpc' = IF gui_is_monitoring THEN "detect" ELSE "done"
    /\ UNCHANGED <<drawn, is_active, detection_mode, protection_level,
                   gps_signals_detected, jamming_active, signals, threat_level,
                   applied, scans, gps_log_lines, gps_last_line, message>>
    /\ UNCHANGED <<gui_is_monitoring, pending, guiIdle>>

\* self.root.after(0, self.apply_protection, signals) or
\* self.root.after(0, self.apply_basic_protection, signals): the response is
\* put on the event queue of the window (update_signal_display, scheduled
\* before it, only draws).
GuiSchedule ==
    /\ mpc = "respond"
    /\ pending' =
          IF threat_level \in {"high", "critical"}
          THEN Append(pending, [method |-> "apply_protection", signals |-> signals])
          ELSE IF threat_level = "medium"
          THEN Append(pending, [method |-> "apply_basic_protection",
                                signals |-> signals])
          ELSE pending
    /\ mpc' = "log"
    /\ UNCHANGED <<drawn, is_active, detection_mode, protection_level,
                   gps_signals_detected, jamming_active, signals, threat_level,
                   applied, scans, gps_log_lines, gps_last_line, message>>
    /\ UNCHANGED <<gui_is_monitoring, guiIdle>>

\* The event loop runs the oldest scheduled response: AntiGPSGUI.apply_protection
\* or AntiGPSGUI.apply_basic_protection on the signals it was scheduled with.
TkRunCallback ==
    /\ pending # << >>
    /\ LET callback == Head(pending)
       IN  /\ applied' =
                 IF callback.method = "apply_protection"
                 THEN <<"location_spoofing", "signal_jamming",
                        "frequency_hopping", "encryption">>
                 ELSE <<"location_spoofing", "signal_jamming">>
           /\ \E power \in [1..Len(callback.signals) -> JamDraws] :
                 jamming_active' =
                    (\E i \in 1..Len(callback.signals) : power[i] > JamThreshold)
    /\ pending' = Tail(pending)
    /\ UNCHANGED <<drawn, is_active, detection_mode, protection_level,
                   gps_signals_detected, mpc, signals, threat_level, scans,
                   gps_log_lines, gps_last_line, message>>
    /\ UNCHANGED <<gui_is_monitoring, guiIdle>>

\* self.anti_gps.log_activity(signals) raises: `except Exception`, the message
\* is scheduled for the log pane.
GuiLogRaises ==
    /\ mpc = "log"
    /\ mpc' = "backoff"
    /\ UNCHANGED <<drawn, is_active, detection_mode, protection_level,
                   gps_signals_detected, jamming_active, signals, threat_level,
                   applied, scans, gps_log_lines, gps_last_line, message>>
    /\ UNCHANGED <<gui_is_monitoring, pending, guiIdle>>

\* time.sleep(1) in the except branch, then back to the loop test.
GuiBackoff ==
    /\ mpc = "backoff"
    /\ mpc' = "check"
    /\ signals' = << >>
    /\ threat_level' = "unset"
    /\ applied' = << >>
    /\ drawn' = << >>
    /\ UNCHANGED <<is_active, detection_mode, protection_level,
                   gps_signals_detected, jamming_active, scans, gps_log_lines,
                   gps_last_line, message>>
    /\ UNCHANGED <<gui_is_monitoring, pending, guiIdle>>

\* A step of the worker that is the same statement as in continuous_monitoring.
GuiWorker == UNCHANGED notMonitor

(***************************************************************************)
(* Specifications                                                          *)
(***************************************************************************)
Init ==
    InitTracker /\ InitMonitor /\ InitClassifyIdle /\ InitQueryIdle
        /\ InitLinksIdle /\ InitCallers

Next ==
    \/ StartTracking /\ UNCHANGED notTracker
    \/ StopTracking /\ UNCHANGED notTracker
    \/ GuiStartTracking /\ UNCHANGED notTracker
    \/ GuiStopTracking /\ UNCHANGED notTracker
    \/ MainStart /\ UNCHANGED notTracker
    \/ MainInterrupt /\ UNCHANGED notTracker
    \/ \E w \in Workers : LoopCheck(w) /\ UNCHANGED notTracker
    \/ \E w \in Workers :
          GetCurrentLocation(w) /\ UNCHANGED notTracker
    \/ \E w \in Workers : SetCurrent(w) /\ UNCHANGED notTracker
    \/ \E w \in Workers : AppendHistory(w) /\ UNCHANGED notTracker
    \/ \E w \in Workers : LenCheck(w) /\ UNCHANGED notTracker
    \/ \E w \in Workers : SliceHistory(w) /\ UNCHANGED notTracker
    \/ \E w \in Workers : AssignHistory(w) /\ UNCHANGED notTracker
    \/ \E w \in Workers : LogLocation(w) /\ UNCHANGED notTracker
    \/ \E w \in Workers :
          LogLocationRaises(w) /\ UNCHANGED notTracker
    \/ \E w \in Workers : Sleep(w) /\ UNCHANGED notTracker
    \/ \E w \in Workers : Backoff(w) /\ UNCHANGED notTracker

Spec == Init /\ [][Next]_vars

InitMonitorSpec ==
    /\ InitTracker /\ driver = "api"
    /\ InitMonitor
    /\ InitClassifyIdle
    /\ InitQueryIdle
    /\ InitLinksIdle
    /\ InitCallers

NextMonitor ==
    \/ SetProtectionLevel /\ UNCHANGED notMonitor
    \/ SetDetectionMode /\ UNCHANGED notMonitor
    \/ StartMonitorThread /\ UNCHANGED notMonitor
    \/ StopMonitoring /\ UNCHANGED notMonitor
    \/ MonitorBegin /\ UNCHANGED notMonitor
    \/ MonitorCheck /\ UNCHANGED notMonitor
    \/ DetectGpsSignals /\ UNCHANGED notMonitor
    \/ Classify /\ UNCHANGED notMonitor
    \/ Respond /\ UNCHANGED notMonitor
    \/ LogActivity /\ UNCHANGED notMonitor
    \/ LogActivityRaises /\ UNCHANGED notMonitor
    \/ MonitorSleep /\ UNCHANGED notMonitor

SpecMonitor == InitMonitorSpec /\ [][NextMonitor]_vars

InitClassifySpec ==
    /\ InitTracker /\ driver = "api"
    /\ InitMonitor
    /\ InitClassify
    /\ InitQueryIdle
    /\ InitLinksIdle
    /\ InitCallers

NextClassify ==
    \/ Analyze /\ UNCHANGED notClassify
    \/ RaiseStrength /\ UNCHANGED notClassify
    \/ AddSignal /\ UNCHANGED notClassify

SpecClassify == InitClassifySpec /\ [][NextClassify]_vars

InitQuerySpec ==
    /\ InitTracker /\ driver = "api"
    /\ InitMonitor
    /\ InitClassifyIdle
    /\ InitQuery
    /\ InitLinksIdle
    /\ InitCallers

NextQuery ==
    \/ GetLocationHistory /\ UNCHANGED notQuery
    \/ GetDistanceTraveled /\ UNCHANGED notQuery

SpecQuery == InitQuerySpec /\ [][NextQuery]_vars

InitLinksSpec ==
    /\ InitTracker /\ driver = "api"
    /\ InitMonitor
    /\ InitClassifyIdle
    /\ InitQueryIdle
    /\ InitLinks
    /\ InitCallers

NextLinks ==
    \/ GenerateLinks /\ UNCHANGED notLinks
    \/ OpenLink /\ UNCHANGED notLinks
    \/ CopyToClipboard /\ UNCHANGED notLinks

SpecLinks == InitLinksSpec /\ [][NextLinks]_vars

NextJam == CallSignalJamming /\ UNCHANGED notGps

InitSessionSpec ==
    /\ InitTracker /\ driver = "api"
    /\ InitMonitor
    /\ InitClassifyIdle
    /\ InitQueryIdle
    /\ InitLinksIdle
    /\ gps_mainpc = "begin"
    /\ gui_is_monitoring = FALSE
    /\ pending = << >>
    /\ jam_signals = << >>
    /\ jamming_results = << >>
    /\ jam_op = "none"

NextSession ==
    \/ GpsMainSetLevel /\ UNCHANGED notGps
    \/ GpsMainSetMode /\ UNCHANGED notGps
    \/ GpsMainStart /\ UNCHANGED notGps
    \/ GpsMainInterrupt /\ UNCHANGED notGps
    \/ GpsMainStatus /\ UNCHANGED notGps
    \/ MonitorBegin /\ SessionWorker
    \/ MonitorCheck /\ SessionWorker
    \/ DetectGpsSignals /\ SessionWorker
    \/ Classify /\ SessionWorker
    \/ Respond /\ SessionWorker
    \/ LogActivity /\ SessionWorker
    \/ LogActivityRaises /\ SessionWorker
    \/ MonitorSleep /\ SessionWorker

SpecSession == InitSessionSpec /\ [][NextSession]_vars

NextMonitorGui ==
    \/ GuiStartMonitoring /\ UNCHANGED notGps
    \/ GuiStopMonitoring /\ UNCHANGED notGps
    \/ GuiMonitorCheck /\ UNCHANGED notGps
    \/ DetectGpsSignals /\ GuiWorker
    \/ Classify /\ GuiWorker
    \/ GuiSchedule /\ UNCHANGED notGps
    \/ TkRunCallback /\ UNCHANGED notGps
    \/ LogActivity /\ GuiWorker
    \/ GuiLogRaises /\ UNCHANGED notGps
    \/ MonitorSleep /\ GuiWorker
    \/ GuiBackoff /\ UNCHANGED notGps

SpecMonitorGui == InitMonitorSpec /\ [][NextMonitorGui]_vars

SpecJam == InitMonitorSpec /\ [][NextJam]_vars

(***************************************************************************)
(* Properties of the tracking session (Spec)                               *)
(***************************************************************************)
\* Worker w is between two ticks: at the loop test, asleep, or gone.
AtTickBoundary(w) == pc[w] \in {"check", "sleep", "backoff", "done"}

\* The workers that have been started and have not left their loop.
LiveWorkers == {w \in Workers : pc[w] \notin {"none", "done"}}

\* C1: in every reachable state, the states between two statements of a tick
\* included (each is a state a reader thread can observe), the location
\* history holds at most 100 samples.
HistoryWithinCap == Len(location_history) <= HistoryCap

\* C2: when a single worker has done all the appending, then at each tick
\* boundary the history is the last min(N, 100) of the N samples appended, in
\* the order they were appended.
HistoryIsLastAppended ==
    (threads = 1 /\ AtTickBoundary(1)) =>
        LET N == Len(appended)
            K == IF N < HistoryCap THEN N ELSE HistoryCap
        IN  /\ Len(location_history) = K
            /\ \A i \in 1..K : location_history[i] = appended[N - K + i]

\* C2 witness: the single worker is between ticks after the history has
\* overflowed twice.
OverflowedAtBoundary ==
    /\ threads = 1
    /\ pc[1] = "sleep"
    /\ Len(appended) = HistoryCap + 2
    /\ Len(location_history) = HistoryCap

\* C3: once stop has been called and no start has followed, at most one more
\* sample is appended to the history and at most one more line is written to
\* the log.
AtMostOneTickAfterStop ==
    stop_mark # <<-1, -1>> =>
        /\ Len(appended) - stop_mark[1] <= 1
        /\ log_lines - stop_mark[2] <= 1

\* C4: for any sequence of start and stop calls, at most one worker thread is
\* in its loop at any moment, and the samples are appended in the order they
\* were taken.
SingleWriterInTickOrder ==
    /\ Cardinality(LiveWorkers) <= 1
    /\ \A i \in 1..Len(appended) : \A j \in 1..Len(appended) :
          i < j => appended[i] < appended[j]

\* C5: the session starts Stopped (flag false, history empty, no current
\* location) and nothing is sampled before the first start; the tracker's flag
\* becomes true only in a start call and false only in a stop call, and the
\* screen's flag likewise: no step of a worker writes either.
TwoStateMachine ==
    /\ [](threads = 0 =>
            /\ ~is_tracking
            /\ ~gui_is_tracking
            /\ current_location = 0
            /\ location_history = << >>
            /\ now = 0)
    /\ [][/\ (~is_tracking /\ is_tracking') => (StartTracking \/ MainStart)
          /\ (is_tracking /\ ~is_tracking') =>
                (StopTracking \/ GuiStopTracking \/ MainInterrupt)
          /\ (~gui_is_tracking /\ gui_is_tracking') => GuiStartTracking
          /\ (gui_is_tracking /\ ~gui_is_tracking') => GuiStopTracking]_vars

\* C5 witness: a session that was started, sampled, and was stopped, its
\* worker gone.
StartedSampledStopped ==
    /\ driver = "api"
    /\ threads = 1
    /\ pc[1] = "done"
    /\ ~is_tracking
    /\ location_history # << >>
    /\ current_location # 0

(***************************************************************************)
(* Properties of analyze_threat_level (SpecClassify)                       *)
(***************************************************************************)
Rank(level) ==
    CASE level = "none" -> 0
      [] level = "low" -> 1
      [] level = "medium" -> 2
      [] level = "high" -> 3
      [] level = "critical" -> 4

\* C6: analyze_threat_level returns none for the empty list; otherwise, with
\* total the sum of the strengths and q the mean quality, critical iff
\* total > 2.0 and q > 0.8; else high iff total > 1.5 and q > 0.7; else medium
\* iff total > 1.0; else low.
ClassifierTable ==
    cresult # "unset" =>
        LET n == Len(csignals)
            total == SumStrength(csignals)
            qsum == SumQuality(csignals)
            isCritical == total > 200 /\ qsum > 80 * n
            isHigh == ~isCritical /\ total > 150 /\ qsum > 70 * n
            isMedium == ~isCritical /\ ~isHigh /\ total > 100
        IN  IF n = 0 THEN cresult = "none"
            ELSE /\ (cresult = "critical") <=> isCritical
                 /\ (cresult = "high") <=> isHigh
                 /\ (cresult = "medium") <=> isMedium
                 /\ (cresult = "low") <=> (~isCritical /\ ~isHigh /\ ~isMedium)
                 /\ cresult \in {"critical", "high", "medium", "low"}

\* C6 witness: a list strong enough for critical whose mean quality is exactly
\* 0.8 has been classified, and came out high.
StrongButMeanQualityOnThreshold ==
    /\ cop = "analyze"
    /\ SumStrength(csignals) > 200
    /\ SumQuality(csignals) = 80 * Len(csignals)
    /\ cresult = "high"

\* C7: raising the strength of one sample of a non-empty list, all qualities
\* and all other strengths kept, never lowers the level returned.
StrengthMonotone ==
    cop = "raise" => Rank(cprev) <= Rank(cresult)

\* C7 witness: a raise has taken a list from low to medium.
RaisedLowToMedium ==
    /\ cop = "raise"
    /\ cprev = "low"
    /\ cresult = "medium"

(***************************************************************************)
(* Properties of the monitoring loop (SpecMonitor)                         *)
(***************************************************************************)
\* C8: with the protection tier set to low, no tick applies signal jamming or
\* encryption.
LowTierNeverJamsOrEncrypts ==
    [][(mpc = "respond" /\ mpc' = "log" /\ protection_level = "low") =>
          /\ "signal_jamming" \notin Range(applied')
          /\ "encryption" \notin Range(applied')]_vars

\* C9: the countermeasures applied in a tick are those of the tick's severity:
\* all four for critical or high, location spoofing and signal jamming for
\* medium, none for low or none.
ResponseFollowsSeverity ==
    mpc = "log" =>
        LET severity == AnalyzeThreatLevel(signals)
        IN  Range(applied) =
               IF severity \in {"critical", "high"}
               THEN {"location_spoofing", "signal_jamming", "frequency_hopping",
                     "encryption"}
               ELSE IF severity = "medium"
               THEN {"location_spoofing", "signal_jamming"}
               ELSE {}

\* C9 witness: a tick of medium severity has responded with the reduced list.
MediumTickResponded ==
    /\ mpc = "log"
    /\ AnalyzeThreatLevel(signals) = "medium"
    /\ applied = <<"location_spoofing", "signal_jamming">>

\* C10: a setter called with an invalid value changes nothing but the message
\* printed; protection_level changes only to a valid level and detection_mode
\* only to a valid mode, and such a step changes no other field.
SettersKeepOrSetOneField ==
    [][LET rest == <<is_active, gps_signals_detected, jamming_active, mpc,
                     signals, threat_level, applied, scans, gps_log_lines,
                     gps_last_line>>
       IN  /\ (message' # message /\ message' \in {"invalid_level", "invalid_mode"})
                 => UNCHANGED <<protection_level, detection_mode, rest>>
           /\ (protection_level' # protection_level)
                 => /\ protection_level' \in ProtectionLevels
                    /\ UNCHANGED <<detection_mode, rest>>
           /\ (detection_mode' # detection_mode)
                 => /\ detection_mode' \in ValidModes
                    /\ UNCHANGED <<protection_level, rest>>]_vars

\* C10 witness: the level was set to low, the mode to aggressive, and an
\* invalid level was then refused while the monitoring loop was in a tick.
InvalidLevelRefused ==
    /\ message = "invalid_level"
    /\ protection_level = "low"
    /\ detection_mode = "aggressive"
    /\ mpc = "log"

(***************************************************************************)
(* Properties of the worker loops, the samplers and the status record      *)
(***************************************************************************)
\* The monitoring thread has left continuous_monitoring, by the loop test or
\* by an exception.
MonitorTerminated == mpc \in {"done", "crashed"}

\* C11: a worker never terminates while its running flag is set: an exception
\* raised inside a tick is caught at the loop boundary and the loop goes on.
\* Stated for the monitoring worker: once its thread has ended, is_active is
\* false.
WorkerOutlivesItsFlag == MonitorTerminated => ~is_active

\* A step in which detect_gps_signals is called and returns.
SamplerReturns == mpc = "detect" /\ mpc' \in {"classify", "log"}

\* C12: sampling has no side effect: a call of detect_gps_signals returns its
\* samples and leaves every field of the system unchanged (the detected-signals
\* list, the flags and the configuration).
SamplerLeavesFieldsAlone ==
    [][SamplerReturns =>
          UNCHANGED <<gps_signals_detected, is_active, jamming_active,
                      detection_mode, protection_level>>]_vars

\* get_status(): the record returned in the current state.
GetStatus ==
    [active |-> is_active,
     detection_mode |-> detection_mode,
     protection_level |-> protection_level,
     jamming_active |-> jamming_active,
     signals_detected |-> Len(gps_signals_detected),
     threat_level |-> AnalyzeThreatLevel(gps_signals_detected)]

\* C13: every severity reported is the classification of the current tick's
\* signals only: once a scan has detected no signal, get_status reports the
\* threat level none, and the tick's log record carries the classification of
\* the tick's signals.
ReportedSeverityIsOfThisTick ==
    /\ (mpc \in {"log", "sleep"} /\ signals = << >>)
          => GetStatus.threat_level = "none"
    /\ mpc = "sleep" => gps_last_line.threat_level = AnalyzeThreatLevel(signals)

\* The signal of band i in a scan that drew d: kept when its strength exceeds
\* the fixed threshold, whatever the configuration.
BandSignal(d, i) ==
    IF d[i][1] > DetectThreshold
    THEN <<[frequency |-> Bands[i], strength |-> d[i][1], quality |-> d[i][2]]>>
    ELSE << >>

\* The tick's scan has returned and the tick is not over.
ScanDone == mpc \in {"classify", "respond", "log", "sleep"}

\* C14: protection tier and detection mode are labels only: the signals a tick
\* samples and the severity it computes and logs are a function of the tick's
\* random draws alone, so two executions with the same draws and different
\* detection_mode and protection_level sample the same signals and compute
\* the same severity in every tick.
LabelsDoNotSteerTheTick ==
    ScanDone =>
        LET expected == BandSignal(drawn, 1) \o BandSignal(drawn, 2)
                            \o BandSignal(drawn, 3)
        IN  /\ signals = expected
            /\ mpc \in {"respond", "log", "sleep"} /\ expected # << >>
                  => threat_level = AnalyzeThreatLevel(expected)
            /\ mpc = "sleep"
                  => /\ gps_last_line.signals_detected = Len(expected)
                     /\ gps_last_line.threat_level = AnalyzeThreatLevel(expected)

\* A tick under a configuration other than the default one has sampled a weak
\* band and a strong one and has classified and logged them.
ReconfiguredTickLogged ==
    /\ mpc = "sleep"
    /\ detection_mode = "aggressive"
    /\ protection_level = "maximum"
    /\ gps_last_line.detection_mode = "aggressive"
    /\ drawn = <<<<20, 90>>, <<100, 90>>, <<20, 90>>>>
    /\ Len(signals) = 1
    /\ threat_level = "low"

\* C18: every completed monitoring tick appends exactly one log record, ticks
\* that detect no signal included: outside a tick the log has one line per scan
\* made, inside a tick one less; the record of the tick just logged carries the
\* number of signals the tick sampled (0 to 3) and their classification (none
\* for 0).
OneRecordPerTick ==
    /\ mpc \in {"none", "begin", "check", "detect", "sleep", "done"}
          => gps_log_lines = scans
    /\ mpc \in {"classify", "respond", "log", "crashed"}
          => gps_log_lines = scans - 1
    /\ mpc = "sleep"
          => /\ gps_last_line.signals_detected = Len(signals)
             /\ Len(signals) \in 0..Len(Bands)
             /\ gps_last_line.threat_level = AnalyzeThreatLevel(signals)
             /\ signals = << >> => gps_last_line.threat_level = "none"

\* The second tick detected nothing after a first tick that detected a signal,
\* and has written its record.
EmptyTickLogged ==
    /\ mpc = "sleep"
    /\ scans = 2
    /\ gps_log_lines = 2
    /\ signals = << >>
    /\ gps_signals_detected # << >>
    /\ gps_last_line.signals_detected = 0
    /\ gps_last_line.threat_level = "none"

(***************************************************************************)
(* Properties of the demonstration scenarios (SpecClassify)                *)
(***************************************************************************)
\* C20: analyze_threat_level classifies each of the demo's named scenarios as
\* its name states: no signals as none, (0.3, 0.6) as low, (0.7, 0.8) as
\* medium, (0.9, 0.9) as high and (1.0, 0.95) as critical.
ScenariosClassifiedAsNamed ==
    cop = "analyze" =>
        \A name \in DOMAIN ThreatScenarios :
            csignals = ThreatScenarios[name] => cresult = name

(***************************************************************************)
(* Properties of the history queries (SpecQuery)                           *)
(***************************************************************************)
\* C15: get_location_history(n), for every n >= 0, returns exactly the
\* min(n, length) most recent samples, oldest first; for n = 0 it returns the
\* empty list.
RecentAreTheLastMin ==
    query = "history" =>
        LET k == IF limit < Len(stored) THEN limit ELSE Len(stored)
        IN  /\ recent = SubSeq(stored, Len(stored) - k + 1, Len(stored))
            /\ limit = 0 => recent = << >>

RECURSIVE SumOfLegs(_, _)
\* The sum of the distances of the first k consecutive pairs of h.
SumOfLegs(h, k) ==
    IF k = 0 THEN 0
    ELSE SumOfLegs(h, k - 1)
            + CalculateDistance(h[k].lat, h[k].lon, h[k + 1].lat, h[k + 1].lon)

\* C16: get_distance_traveled returns 0 for a history of fewer than 2 samples
\* and otherwise the sum, over the consecutive pairs of stored samples, of
\* their pairwise distance.
DistanceIsSumOfLegs ==
    query = "distance" =>
        distance = IF Len(stored) < 2 THEN 0
                   ELSE SumOfLegs(stored, Len(stored) - 1)

\* The distance over New York, the nearby point and London has been computed:
\* 111 m and 5570153 m.
ThreeStopsMeasured ==
    /\ query = "distance"
    /\ Len(stored) = 3
    /\ <<stored[1].lat, stored[1].lon>> = NewYork
    /\ <<stored[2].lat, stored[2].lon>> = NearNewYork
    /\ <<stored[3].lat, stored[3].lon>> = London
    /\ distance = 5570264

\* All the stored samples have the same latitude and longitude.
Stationary(h) ==
    \A i, j \in 1..Len(h) : h[i].lat = h[j].lat /\ h[i].lon = h[j].lon

Contains(s, t) ==
    \E i \in 1..(Len(s) - Len(t) + 1) : SubSeq(s, i, i + Len(t) - 1) = t

\* C19: share-link generation is a pure, deterministic function of the sample:
\* a call of generate_links changes no state of the generator (the analytics
\* counters and the sample are as before), a call for the sample of an earlier
\* call returns the same links, whatever was clicked or copied in between, and
\* for latitude 40.7128, longitude -74.0060 the google_maps link contains the
\* text q=40.7128,-74.006.
GenerateLinksIsPure ==
    [][link_op' = "generate" =>
          /\ analytics' = analytics
          /\ share_location' = share_location
          /\ links # NoLinks => links' = links
          /\ <<share_location.lat, share_location.lon>> = NewYork
                => Contains(links'.google_maps,
                            <<"q=", "4", "0", ".", "7", "1", "2", "8", ",",
                              "-", "7", "4", ".", "0", "0", "6">>)]_vars

\* Links for New York were generated, a link was opened and one was copied,
\* and the links were generated again.
RegeneratedAfterUse ==
    /\ link_op = "generate"
    /\ <<share_location.lat, share_location.lon>> = NewYork
    /\ analytics.clicks = 1
    /\ analytics.copies = 1
    /\ previous_links # NoLinks
    /\ links = previous_links

(***************************************************************************)
(* Properties of the tracker's status, current location and log (Spec)     *)
(***************************************************************************)
\* get_current_status(): the record returned in the current state, by the
\* fields read from the tracker.
GetCurrentStatus ==
    [tracking_active |-> is_tracking,
     current_location |-> current_location,
     total_locations |-> Len(location_history)]

\* C24: in a GUI session the running indicator of the core object's status
\* (tracking_active of get_current_status) is true exactly while the screen's
\* worker loop is running: true after the GUI start action, false after the
\* GUI stop action.
IndicatorFollowsScreen ==
    driver = "gui" => (GetCurrentStatus.tracking_active <=> gui_is_tracking)

\* C26: in every state a reader can observe, current_location is none exactly
\* when the history is empty, and otherwise it is the last element of the
\* history.
CurrentIsNewestStored ==
    /\ current_location = 0 <=> location_history = << >>
    /\ location_history # << >>
          => current_location = location_history[Len(location_history)]

\* C30: at every tick boundary of a session with one worker, the lines of the
\* location log and the samples appended to the history correspond one to
\* one, in order: as many lines as appends, the last line being the last
\* sample appended, also after a tick whose log write raised.
LogMatchesAppends ==
    (threads = 1 /\ AtTickBoundary(1))
        => /\ log_lines = Len(appended)
           /\ log_lines > 0 => last_line = appended[Len(appended)]

(***************************************************************************)
(* Properties that follow from the sampler's ranges (SpecMonitor)          *)
(***************************************************************************)
\* C27: with strengths of at most 1.0 and at most one signal per band, a scan
\* that detects exactly one signal is classified low and no countermeasure is
\* applied in its tick; a severity of medium or high needs at least two
\* detected signals and critical needs all three bands.
OneSignalIsLow ==
    (mpc \in {"respond", "log", "sleep"} /\ signals # << >>)
        => /\ Len(signals) = 1
                => /\ threat_level = "low"
                   /\ mpc \in {"log", "sleep"} => applied = << >>
           /\ threat_level \in {"medium", "high"} => Len(signals) >= 2
           /\ threat_level = "critical" => Len(signals) = Len(Bands)

\* A tick that detected one signal of the greatest strength and quality drawn
\* has been logged without any countermeasure.
StrongestSingleSignalLogged ==
    /\ mpc = "sleep"
    /\ Len(signals) = 1
    /\ signals[1].strength = 100
    /\ signals[1].quality = 90
    /\ threat_level = "low"
    /\ applied = << >>
    /\ gps_last_line.threat_level = "low"

\* C28: adding one more detected signal to a non-empty list never lowers the
\* severity analyze_threat_level returns.
MoreSignalsNeverLower ==
    cop = "add" => Rank(cprev) <= Rank(cresult)

(***************************************************************************)
(* Properties of signal_jamming (SpecJam)                                  *)
(***************************************************************************)
\* C22: signal_jamming on a non-empty list produces exactly one result per
\* input signal, in input order, with success true exactly when that result's
\* jamming power is greater than 0.7, and sets jamming_active to true exactly
\* when at least one result succeeded; on an empty list it applies nothing and
\* leaves jamming_active as it was.
OneJamResultPerSignal ==
    [][IF jam_signals' = << >>
       THEN /\ jamming_results' = << >>
            /\ jamming_active' = jamming_active
       ELSE /\ Len(jamming_results') = Len(jam_signals')
            /\ \A i \in 1..Len(jam_signals') :
                  /\ jamming_results'[i].frequency = jam_signals'[i].frequency
                  /\ jamming_results'[i].success
                        <=> jamming_results'[i].jamming_power > 70
            /\ jamming_active'
                  <=> \E i \in 1..Len(jam_signals') : jamming_results'[i].success
      ]_vars

\* Three signals were jammed with powers on, above and below the threshold:
\* only the second succeeded.
JammedOnThreshold ==
    /\ jam_op = "jammed"
    /\ Len(jam_signals) = 3
    /\ jamming_results[1].jamming_power = 70 /\ ~jamming_results[1].success
    /\ jamming_results[2].jamming_power = 80 /\ jamming_results[2].success
    /\ jamming_results[3].jamming_power = 60 /\ ~jamming_results[3].success
    /\ jamming_results[2].frequency = "L2"
    /\ jamming_active

(***************************************************************************)
(* Properties of a console session (SpecSession)                           *)
(***************************************************************************)
\* C23: a stop_monitoring call made at any time after the monitoring thread
\* has been started leaves is_active false, so that continuous_monitoring
\* exits, even when it is made before the worker has executed its first
\* statement: once main has called stop_monitoring, the status it prints
\* reports the system as not active.
StopLeavesInactive ==
    gps_mainpc = "stopped" => ~GetStatus.active

\* C29: a log record has protection_active true only if signal jamming was
\* applied in that same tick (and a jam succeeded); a tick classified low or
\* none, in which no countermeasure is applied, is logged with
\* protection_active false.
LoggedProtectionIsOfThisTick ==
    mpc = "sleep" =>
        (gps_last_line.protection_active => "signal_jamming" \in Range(applied))

(***************************************************************************)
(* Properties of the window's monitoring loop (SpecMonitorGui)             *)
(***************************************************************************)
\* C21: within every tick of a monitoring loop the steps occur in the order
\* sample, classify, respond, log: when the tick's log record has been
\* written, the countermeasures chosen for the tick's classification have
\* been applied (no response is still waiting to be run).
RespondedBeforeLogged ==
    mpc = "sleep" => pending = << >>

(***************************************************************************)
(* The distance reported while tracking (Spec)                             *)
(***************************************************************************)
\* The coordinates of the sample created at time t.
SampleAt(t) ==
    IF route = "abroad_first" /\ t = 1 THEN London ELSE NewYork

\* The history as get_distance_traveled reads it: each sample with its
\* coordinates.
Located(h) ==
    [i \in 1..Len(h) |->
        [timestamp |-> h[i], lat |-> SampleAt(h[i])[1], lon |-> SampleAt(h[i])[2]]]

\* C25: while a tracking worker runs, the distance reported by
\* get_distance_traveled never decreases from one tick boundary to the next,
\* also after the history has reached its capacity of 100 and evicts its
\* oldest samples: with one worker, neither the append of a tick nor the
\* assignment of the truncated history leaves a distance below the one at the
\* start of the tick.
DistanceNeverDecreases ==
    [][(driver = "main" /\ threads = 1) =>
          /\ pc[1] = "append" =>
                DistanceTraveled(Located(location_history'))
                   >= DistanceTraveled(Located(location_history))
          /\ pc[1] = "assign" =>
                DistanceTraveled(Located(location_history'))
                   >= DistanceTraveled(Located(
                         SubSeq(location_history, 1, Len(location_history) - 1)))
      ]_vars

====
